---------------------------- MODULE Spec2Model ----------------------------
(***************************************************************************)
(* Student record store (array_operations.py) and grade reports            *)
(* (reports.py).                                                           *)
(*                                                                         *)
(* Text is modelled character by character: a Python str is a sequence of  *)
(* one-character strings, so strip(), lower(), isdigit(), replace() and    *)
(* float() are computed, not assumed.  A CSV file is a sequence of lines,  *)
(* a line a sequence of cells, a cell a str.  Numbers are integral scores; *)
(* a composite grade is an integer number of hundredths.                   *)
(***************************************************************************)
EXTENDS Integers, Sequences, FiniteSets, TLC

VARIABLES
    files,       \* the file system: path -> sequence of CSV lines
    pc,          \* "menu", or "add" while add_data is prompting
    n,           \* add_data: number of students to add
    i,           \* add_data: index of the student being entered (0-based)
    idx,         \* add_data: index of the column being prompted (0-based)
    student,     \* add_data: the fields accepted so far for this student
    new_rows,    \* add_data: the students completed so far in this batch
    val,         \* add_data: the last value typed, stripped
    msg,         \* the last message printed: its text, then its arguments
    crashed,     \* an exception left the called function
    row,         \* grade engine: the row map handed to the grade helpers
    final,       \* grade engine: the composite returned (hundredths) or None
    letter,      \* grade engine: the letter returned
    sections,    \* export_per_section: its local dict, group name -> rows
    enriched,    \* export_per_section: the rows it grouped
    at_risk      \* export_at_risk: its local list

vars == <<files, pc, n, i, idx, student, new_rows, val, msg, crashed,
          row, final, letter, sections, enriched, at_risk>>

storeVars == <<files, pc, n, i, idx, student, new_rows, val, msg, crashed>>
gradeVars == <<row, final, letter>>
reportVars == <<sections, enriched, at_risk>>

(***************************************************************************)
(* Bounds of the model.                                                    *)
(***************************************************************************)
\* The store never grows beyond this many records.
MaxRows == 2
\* The largest batch size typed at "How many students to add?".
MaxBatch == 2

(***************************************************************************)
(* Python values.                                                          *)
(***************************************************************************)
\* Python's None where a float is optional; every float of the model is >= 0.
None == -1

STR_none == <<"n","o","n","e">>
STR_EMPTY == <<>>

DigitChars == <<"0","1","2","3","4","5","6","7","8","9">>
UpperChars == <<"A","B","C","D","E","F","G","H","I","J","K","L","M","N","O","P","Q","R","S","T","U","V","W","X","Y","Z">>
LowerChars == <<"a","b","c","d","e","f","g","h","i","j","k","l","m","n","o","p","q","r","s","t","u","v","w","x","y","z">>

Range(s) == {s[k] : k \in DOMAIN s}

DigitSet == Range(DigitChars)
UpperSet == Range(UpperChars)

\* str.isdigit() of one character
IsDigit(c) == c \in DigitSet

\* int(c) of a digit
DigitMap == [c \in DigitSet |-> (CHOOSE k \in DOMAIN DigitChars : DigitChars[k] = c) - 1]
DigitVal(c) == DigitMap[c]

\* str.isspace() of one character
IsSpace(c) == c \in {" ", "\t"}

RECURSIVE LStrip(_)
LStrip(s) == IF s # <<>> /\ IsSpace(Head(s)) THEN LStrip(Tail(s)) ELSE s

RECURSIVE RStrip(_)
RStrip(s) ==
    IF s # <<>> /\ IsSpace(s[Len(s)]) THEN RStrip(SubSeq(s, 1, Len(s) - 1)) ELSE s

\* str.strip()
Strip(s) == RStrip(LStrip(s))

\* c.lower() of an upper-case letter
LowerMap == [c \in UpperSet |-> LowerChars[CHOOSE k \in DOMAIN UpperChars : UpperChars[k] = c]]

LowerChar(c) == IF c \in UpperSet THEN LowerMap[c] ELSE c

\* str.lower()
Lower(s) == [k \in DOMAIN s |-> LowerChar(s[k])]

\* c.upper() of a lower-case letter
UpperMap == [c \in Range(LowerChars) |-> UpperChars[CHOOSE k \in DOMAIN LowerChars : LowerChars[k] = c]]

UpperChar(c) == IF c \in DOMAIN UpperMap THEN UpperMap[c] ELSE c

\* str.upper()
Upper(s) == [k \in DOMAIN s |-> UpperChar(s[k])]

\* str.replace(" ", "_")
ReplaceSpaces(s) == [k \in DOMAIN s |-> IF s[k] = " " THEN "_" ELSE s[k]]

\* any(char.isdigit() for char in val)
AnyDigit(s) == \E k \in DOMAIN s : IsDigit(s[k])

RECURSIVE DigitsValue(_)
DigitsValue(s) ==
    IF s = <<>> THEN 0 ELSE 10 * DigitsValue(SubSeq(s, 1, Len(s) - 1)) + DigitVal(s[Len(s)])

AllDigits(s) == \A k \in DOMAIN s : IsDigit(s[k])
AllZeros(s) == \A k \in DOMAIN s : s[k] = "0"

DotAt(s) == IF \E k \in DOMAIN s : s[k] = "." THEN CHOOSE k \in DOMAIN s : s[k] = "." ELSE 0

\* float(s) accepts the text: surrounding blanks, digits, and an optional
\* fraction of zeros (the model's numbers are integral).  Any other text
\* of the model's inputs carries a letter and float() raises ValueError.
FloatOk(s) ==
    LET t == Strip(s)
        d == DotAt(t)
    IN  IF d = 0
        THEN t # <<>> /\ AllDigits(t)
        ELSE /\ d > 1
             /\ AllDigits(SubSeq(t, 1, d - 1))
             /\ AllZeros(SubSeq(t, d + 1, Len(t)))

\* float(s), for a text float() accepts
FloatOf(s) ==
    LET t == Strip(s)
        d == DotAt(t)
    IN  DigitsValue(IF d = 0 THEN t ELSE SubSeq(t, 1, d - 1))

RECURSIVE IntChars(_)
IntChars(v) ==
    IF v < 10 THEN <<DigitChars[v + 1]>>
    ELSE IntChars(v \div 10) \o <<DigitChars[(v % 10) + 1]>>

\* str(x) of a float holding an integral value: 50.0 -> "50.0"
FloatRepr(v) == IntChars(v) \o <<".", "0">>


\* ord(c) over the characters of the model, in code-point order
AsciiChars == <<"\t", " ", ".", "/">> \o DigitChars \o UpperChars \o <<"_">> \o LowerChars
OrdMap == [c \in Range(AsciiChars) |-> CHOOSE k \in DOMAIN AsciiChars : AsciiChars[k] = c]
Ord(c) == OrdMap[c]

\* a < b for two str
RECURSIVE StrLess(_, _)
StrLess(a, b) ==
    IF b = <<>> THEN FALSE
    ELSE IF a = <<>> THEN TRUE
    ELSE IF Head(a) = Head(b) THEN StrLess(Tail(a), Tail(b))
    ELSE Ord(Head(a)) < Ord(Head(b))

\* Python values held in lists and dicts: a str, a float or None
PyStr(s) == [t |-> "str", s |-> s]
PyFloat(v) == [t |-> "float", v |-> v]
PyNone == [t |-> "None"]
\* a float of two decimals, held in hundredths
PyScore(h) == [t |-> "score", h |-> h]

(***************************************************************************)
(* array_operations.py: the store file.                                    *)
(***************************************************************************)
FILENAME == <<"s","t","u","d","e","n","t","R","e","c","o","r","d",".","c","s","v">>

H_student_id == <<"s","t","u","d","e","n","t","_","i","d">>
H_last_name == <<"l","a","s","t","_","n","a","m","e">>
H_first_name == <<"f","i","r","s","t","_","n","a","m","e">>
H_section == <<"s","e","c","t","i","o","n">>
H_quiz1 == <<"q","u","i","z","1">>
H_quiz2 == <<"q","u","i","z","2">>
H_quiz3 == <<"q","u","i","z","3">>
H_quiz4 == <<"q","u","i","z","4">>
H_quiz5 == <<"q","u","i","z","5">>
H_midterm == <<"m","i","d","t","e","r","m">>
H_final == <<"f","i","n","a","l">>
H_attendance_percent == <<"a","t","t","e","n","d","a","n","c","e","_","p","e","r","c","e","n","t">>

HEADER == <<H_student_id, H_last_name, H_first_name, H_section,
            H_quiz1, H_quiz2, H_quiz3, H_quiz4, H_quiz5,
            H_midterm, H_final, H_attendance_percent>>

\* HEADER.index(col_name), 0-based
HeaderIndex(col_name) == (CHOOSE k \in DOMAIN HEADER : HEADER[k] = col_name) - 1

\* range(4, 12): the numeric columns, 0-based
IsNumericIdx(k) == k >= 4 /\ k < 12

\* os.path.exists(path)
Exists(fs, path) == path \in DOMAIN fs

\* the file system after path holds lines
WriteFile(fs, path, lines) ==
    [q \in (DOMAIN fs) \cup {path} |-> IF q = path THEN lines ELSE fs[q]]

\* str(x) of a float of two decimals: 58.0 -> "58.0", 58.25 -> "58.25"
ScoreRepr(h) ==
    IntChars(h \div 100) \o <<".">> \o
        (IF h % 10 = 0 THEN <<DigitChars[((h % 100) \div 10) + 1]>>
         ELSE <<DigitChars[((h % 100) \div 10) + 1], DigitChars[(h % 10) + 1]>>)

\* csv.writer's text of one value: str(x), and the empty text for None
CsvCell(x) ==
    CASE x.t = "str" -> x.s
      [] x.t = "float" -> FloatRepr(x.v)
      [] x.t = "score" -> ScoreRepr(x.h)
      [] OTHER -> <<>>

\* writer.writerows(data)
CsvLines(data) == [k \in DOMAIN data |-> [c \in DOMAIN data[k] |-> CsvCell(data[k][c])]]

\* save_to_csv(data, filename): append, with the header when the file is new
save_to_csv(fs, data, filename) ==
    IF Exists(fs, filename)
    THEN WriteFile(fs, filename, fs[filename] \o CsvLines(data))
    ELSE WriteFile(fs, filename, <<HEADER>> \o CsvLines(data))

\* save_cleaned_csv(valid_rows, filename): overwrite with header and rows
save_cleaned_csv(fs, valid_rows, filename) ==
    WriteFile(fs, filename, <<HEADER>> \o CsvLines(valid_rows))

\* csv.DictReader: the first line names the fields, each later line is a
\* dict.  A dict is its keys in insertion order and their values; a field
\* the line is too short for is None (restval).
DictOfLine(fieldnames, line) ==
    [keys |-> fieldnames,
     vals |-> [k \in DOMAIN fieldnames |-> IF k <= Len(line) THEN PyStr(line[k]) ELSE PyNone]]

DictReader(lines) ==
    IF lines = <<>> THEN <<>>
    ELSE [k \in 1..(Len(lines) - 1) |-> DictOfLine(lines[1], lines[k + 1])]

\* key in d
HasKey(d, key) == \E j \in DOMAIN d.keys : d.keys[j] = key

\* d[key] for a key the dict has (a repeated field name keeps the last)
DictItem(d, key) ==
    d.vals[CHOOSE j \in DOMAIN d.keys :
               d.keys[j] = key /\ \A m \in DOMAIN d.keys : d.keys[m] = key => m <= j]

\* d.get(key, default)
DictGet(d, key, default) == IF HasKey(d, key) THEN DictItem(d, key) ELSE default

\* d[key] = value
DictSet(d, key, value) ==
    IF HasKey(d, key)
    THEN [d EXCEPT !.vals = [j \in DOMAIN d.vals |-> IF d.keys[j] = key THEN value ELSE d.vals[j]]]
    ELSE [keys |-> Append(d.keys, key), vals |-> Append(d.vals, value)]

(***************************************************************************)
(* ingest.clean_ingest: read a file into (valid rows, rejected rows).       *)
(* Each line is classified on its own by the field rules; a valid row is a *)
(* list of str (identifier, names, section) and float-or-None (scores).    *)
(***************************************************************************)
IngestNumericOk(cell) ==
    \/ Strip(cell) = <<>>
    \/ Lower(Strip(cell)) = STR_none
    \/ FloatOk(cell) /\ FloatOf(cell) >= 0 /\ FloatOf(cell) <= 100

IngestNumeric(cell) ==
    IF Strip(cell) = <<>> \/ Lower(Strip(cell)) = STR_none
    THEN PyNone
    ELSE PyFloat(FloatOf(cell))

IngestText(cell) == IF Strip(cell) = <<>> THEN PyStr(STR_none) ELSE PyStr(Strip(cell))

\* the line alone satisfies the field rules
IngestLineOk(line) ==
    /\ Len(line) = Len(HEADER)
    /\ Strip(line[1]) # <<>>
    /\ ~AnyDigit(line[2])
    /\ ~AnyDigit(line[3])
    /\ \A k \in 5..12 : IngestNumericOk(line[k])

IngestRow(line) ==
    [k \in 1..Len(HEADER) |->
        IF k = 1 THEN PyStr(Strip(line[1]))
        ELSE IF k <= 4 THEN IngestText(line[k])
        ELSE IngestNumeric(line[k])]

\* the valid rows of lines, in order; a repeated identifier is rejected
RECURSIVE IngestValid(_, _)
IngestValid(lines, acc) ==
    IF lines = <<>> THEN acc
    ELSE LET line == Head(lines)
             ok == /\ IngestLineOk(line)
                   /\ \A k \in DOMAIN acc : acc[k][1].s # Strip(line[1])
         IN  IngestValid(Tail(lines), IF ok THEN Append(acc, IngestRow(line)) ELSE acc)

\* clean_ingest(filename, HEADER)[0]; a missing file has no valid rows
clean_ingest(fs, filename) ==
    IF ~Exists(fs, filename) \/ fs[filename] = <<>> THEN <<>>
    ELSE IF fs[filename][1] = HEADER
         THEN IngestValid(Tail(fs[filename]), <<>>)
         ELSE IngestValid(fs[filename], <<>>)

(***************************************************************************)
(* add_data: one prompt at a time.                                         *)
(***************************************************************************)
\* The texts typed at the prompts of the model, by column.  Columns 1 and 2
\* run the same lines 89-96, columns 4 to 11 the same lines 108-121.
IdInputs == { <<>>, <<"A">>, <<" ", "A">>, <<"B">> }
LastNameInputs == { <<>>, <<" ">>, <<"L","3","e">> }
FirstNameInputs == { <<"L","e","e">>, <<"7">> }
SectionInputs == { <<>>, <<"A"," ","B">> }
Quiz1Inputs == { <<>>, <<"N","o","n","e">>, <<"5","0">>, <<"1","0","1">>, <<"a","b","c">> }
FinalInputs == { <<"0">>, <<"x">> }
AttendanceInputs == { <<"1","0","0">>, <<"1","5","0">> }
BlankInputs == { <<>> }

InputsFor(k) ==
    CASE k = 0 -> IdInputs
      [] k = 1 -> LastNameInputs
      [] k = 2 -> FirstNameInputs
      [] k = 3 -> SectionInputs
      [] k = 4 -> Quiz1Inputs
      [] k = 10 -> FinalInputs
      [] k = 11 -> AttendanceInputs
      [] OTHER -> BlankInputs

\* the number of data lines of the store file
StoreCount(fs) == IF Exists(fs, FILENAME) /\ fs[FILENAME] # <<>> THEN Len(fs[FILENAME]) - 1 ELSE 0

\* lines 53-56 (and 127 when the loop body never runs)
AddStart(k) ==
    /\ pc = "menu"
    /\ ~crashed
    /\ StoreCount(files) + k <= MaxRows
    /\ n' = k
    /\ new_rows' = <<>>
    /\ student' = <<>>
    /\ i' = 0
    /\ idx' = 0
    /\ IF k > 0
       THEN /\ pc' = "add"
            /\ msg' = <<"Student #">>
            /\ files' = files
       ELSE /\ pc' = "menu"
            /\ msg' = <<"Data saved">>
            /\ files' = save_to_csv(files, <<>>, FILENAME)
    /\ UNCHANGED <<val, crashed, gradeVars, reportVars>>

\* The text typed at "How many students to add?" that int() rejects.
CountInvalidInputs == { <<"t","w","o">> }

\* int(s) accepts the text: surrounding blanks around digits
IntOk(s) == Strip(s) # <<>> /\ AllDigits(Strip(s))

\* line 53: int(input(...)) raises ValueError, which nothing catches
AddCountRaises(raw) ==
    /\ pc = "menu"
    /\ ~crashed
    /\ ~IntOk(raw)
    /\ crashed' = TRUE
    /\ msg' = <<"Traceback">>
    /\ UNCHANGED <<files, pc, n, i, idx, student, new_rows, val, gradeVars, reportVars>>

\* IdTaken reading the wrong key of the row
IdTaken_WrongKey(fs, v) ==
    \E k \in DOMAIN DictReader(fs[FILENAME]) : PyStr(v) = DictItem(DictReader(fs[FILENAME])[k], H_last_name)

\* lines 75-81: the identifier is the student_id of a row of the store file
IdTaken(fs, v) ==
    \E k \in DOMAIN DictReader(fs[FILENAME]) : PyStr(v) = DictItem(DictReader(fs[FILENAME])[k], H_student_id)

\* lines 75-78 raise: the file is missing, or a line has no student_id key
IdCheckRaises(fs) ==
    \/ ~Exists(fs, FILENAME)
    \/ \E k \in DOMAIN DictReader(fs[FILENAME]) : ~HasKey(DictReader(fs[FILENAME])[k], H_student_id)

\* ScoreInRange without its upper limit
ScoreInRange_NoUpper(num_val) == 0 <= num_val

\* lines 113-114: the score is accepted
ScoreInRange(num_val) == 0 <= num_val /\ num_val <= 100

\* the verdict of one pass of the while loop (lines 64-121) on the typed
\* value v for column k: the message printed, and the value appended if any
Validate(fs, k, v) ==
    IF k = 0 THEN
        IF v = <<>> THEN [ok |-> FALSE, msg |-> <<"Student ID cannot be empty">>]
        ELSE IF IdTaken(fs, v) THEN [ok |-> FALSE, msg |-> <<"Student ID already taken">>]
        ELSE [ok |-> TRUE, msg |-> <<"">>, value |-> PyStr(v)]
    ELSE IF k \in {1, 2} THEN
        IF v = <<>> THEN [ok |-> TRUE, msg |-> <<"">>, value |-> PyStr(STR_none)]
        ELSE IF AnyDigit(v) THEN [ok |-> FALSE, msg |-> <<"Names cannot contain numbers">>]
        ELSE [ok |-> TRUE, msg |-> <<"">>, value |-> PyStr(v)]
    ELSE IF k = 3 THEN
        IF v = <<>> THEN [ok |-> TRUE, msg |-> <<"">>, value |-> PyStr(STR_none)]
        ELSE [ok |-> TRUE, msg |-> <<"">>, value |-> PyStr(v)]
    ELSE
        IF v = <<>> \/ Lower(v) = STR_none THEN [ok |-> TRUE, msg |-> <<"">>, value |-> PyStr(STR_none)]
        ELSE IF ~FloatOk(v) THEN [ok |-> FALSE, msg |-> <<"Invalid number">>]
        ELSE IF ~ScoreInRange(FloatOf(v)) THEN [ok |-> FALSE, msg |-> <<"Score must be between 0 and 100">>]
        ELSE [ok |-> TRUE, msg |-> <<"">>, value |-> PyFloat(FloatOf(v))]

\* one prompt of add_data (lines 64-124), and line 127 after the last one
Prompt(raw) ==
    /\ pc = "add"
    /\ ~crashed
    /\ val' = Strip(raw)
    /\ IF idx = 0 /\ val' # <<>> /\ IdCheckRaises(files)
       THEN /\ crashed' = TRUE
            /\ msg' = <<"Traceback">>
            /\ UNCHANGED <<files, pc, n, i, idx, student, new_rows>>
       ELSE LET r == Validate(files, idx, val')
            IN  /\ crashed' = crashed
                /\ msg' = IF r.ok /\ idx = Len(HEADER) - 1 /\ i + 1 >= n
                          THEN <<"Data saved">> ELSE r.msg
                /\ IF ~r.ok
                   THEN UNCHANGED <<files, pc, n, i, idx, student, new_rows>>
                   ELSE IF idx < Len(HEADER) - 1
                   THEN /\ student' = Append(student, r.value)
                        /\ idx' = idx + 1
                        /\ UNCHANGED <<files, pc, n, i, new_rows>>
                   ELSE /\ new_rows' = Append(new_rows, Append(student, r.value))
                        /\ student' = <<>>
                        /\ idx' = 0
                        /\ n' = n
                        /\ IF i + 1 < n
                           THEN /\ i' = i + 1
                                /\ UNCHANGED <<files, pc>>
                           ELSE /\ i' = i
                                /\ pc' = "menu"
                                /\ files' = save_to_csv(files, new_rows', FILENAME)
    /\ UNCHANGED <<gradeVars, reportVars>>

(***************************************************************************)
(* delete_data                                                             *)
(***************************************************************************)
\* The identifiers typed at "Enter Student ID to delete".
DeleteInputs == { <<"A">>, <<"B">>, <<"Z">> }

\* KeepRow keeping no row at all
KeepRow_DropAll(r, student_id) == FALSE

\* line 142: the rows kept
KeepRow(r, student_id) == r[1].s # student_id

UpdatedRows(valid_rows, student_id) ==
    SelectSeq(valid_rows, LAMBDA r : KeepRow(r, student_id))

\* delete_data(filename), with student_id typed at the prompt
delete_data(filename, student_id) ==
    /\ pc = "menu"
    /\ ~crashed
    /\ IF ~Exists(files, filename)
       THEN /\ msg' = <<"File not found.">>
            /\ files' = files
       ELSE LET valid_rows == clean_ingest(files, filename)
                updated_rows == UpdatedRows(valid_rows, student_id)
            IN  IF Len(updated_rows) = Len(valid_rows)
                THEN /\ msg' = <<"No student found with that ID.">>
                     /\ files' = files
                ELSE /\ msg' = <<"Deleted Student ID", student_id>>
                     /\ files' = save_cleaned_csv(files, updated_rows, FILENAME)
    /\ UNCHANGED <<pc, n, i, idx, student, new_rows, val, crashed, gradeVars, reportVars>>

(***************************************************************************)
(* sort_data                                                               *)
(***************************************************************************)
\* The texts typed at "Enter column name to sort by" and "Enter choice".
ColumnInputs == { H_section, H_quiz1, <<" ">> \o H_final, <<"i","d">> }
OrderInputs == { <<"1">>, <<"2", " ">> }

\* sort_key with a missing score as float('-inf') in both directions
sort_key_AlwaysNegInf(r, col_index, reverse) ==
    LET value == r[col_index + 1]
    IN  IF IsNumericIdx(col_index)
        THEN IF value.t = "None"
             THEN [inf |-> -1, v |-> 0, s |-> <<>>]
             ELSE [inf |-> 0, v |-> value.v, s |-> <<>>]
        ELSE IF value.t = "None" \/ Lower(value.s) = STR_none
             THEN [inf |-> 0, v |-> 0, s |-> <<>>]
             ELSE [inf |-> 0, v |-> 0, s |-> Lower(value.s)]

\* lines 242-251: the key of a row; inf is -1 for float('-inf'), 1 for
\* float('inf'), 0 for a finite float
sort_key(r, col_index, reverse) ==
    LET value == r[col_index + 1]
    IN  IF IsNumericIdx(col_index)
        THEN IF value.t = "None"
             THEN [inf |-> IF ~reverse THEN -1 ELSE 1, v |-> 0, s |-> <<>>]
             ELSE [inf |-> 0, v |-> value.v, s |-> <<>>]
        ELSE IF value.t = "None" \/ Lower(value.s) = STR_none
             THEN [inf |-> 0, v |-> 0, s |-> <<>>]
             ELSE [inf |-> 0, v |-> 0, s |-> Lower(value.s)]

\* a < b for two keys: floats with infinities, or str
KeyLess(a, b) ==
    \/ a.inf < b.inf
    \/ a.inf = b.inf /\ a.v < b.v
    \/ a.inf = b.inf /\ a.v = b.v /\ StrLess(a.s, b.s)

\* x sorts strictly before y
Before(x, y, col_index, reverse) ==
    IF reverse
    THEN KeyLess(sort_key(y, col_index, reverse), sort_key(x, col_index, reverse))
    ELSE KeyLess(sort_key(x, col_index, reverse), sort_key(y, col_index, reverse))

\* sorted() is stable, also with reverse=True: x goes behind every row
\* that does not sort after it
InsertSorted(done, x, col_index, reverse) ==
    LET p == Cardinality({k \in DOMAIN done : ~Before(x, done[k], col_index, reverse)})
    IN  SubSeq(done, 1, p) \o <<x>> \o SubSeq(done, p + 1, Len(done))

RECURSIVE SortedFrom(_, _, _, _)
SortedFrom(done, rest, col_index, reverse) ==
    IF rest = <<>> THEN done
    ELSE SortedFrom(InsertSorted(done, Head(rest), col_index, reverse), Tail(rest),
                    col_index, reverse)

\* sorted(valid_rows, key=sort_key, reverse=reverse), line 256
sorted(valid_rows, col_index, reverse) == SortedFrom(<<>>, valid_rows, col_index, reverse)

\* sort_data(filename), with the column name and the order typed
sort_data(filename, col_raw, order_raw) ==
    /\ pc = "menu"
    /\ ~crashed
    /\ LET valid_rows == clean_ingest(files, filename)
           col_name == Strip(col_raw)
           reverse == Strip(order_raw) = <<"2">>
       IN  IF valid_rows = <<>>
           THEN /\ msg' = <<"No valid data to sort.">>
                /\ files' = files
           ELSE IF col_name \notin Range(HEADER)
           THEN /\ msg' = <<"Invalid column name.">>
                /\ files' = files
           ELSE /\ msg' = <<"Data sorted by", col_name, IF reverse THEN "descending" ELSE "ascending">>
                /\ files' = save_cleaned_csv(files,
                                sorted(valid_rows, HeaderIndex(col_name), reverse), filename)
    /\ UNCHANGED <<pc, n, i, idx, student, new_rows, val, crashed, gradeVars, reportVars>>

(***************************************************************************)
(* The store under the menu of main.py: every operation on FILENAME.       *)
(***************************************************************************)
\* A store file as add_data leaves it: the header and one record.
InitLine == <<<<"A">>, STR_none, <<"L","e","e">>, STR_none, <<"5","0",".","0">>,
              STR_none, STR_none, STR_none, STR_none, STR_none, <<"0",".","0">>, <<"1","0","0",".","0">>>>

InitStores == { <<HEADER>>, <<HEADER, InitLine>> }

InitGrade ==
    /\ row = [keys |-> <<>>, vals |-> <<>>]
    /\ final = None
    /\ letter = <<>>

InitReport ==
    /\ sections = <<>>
    /\ enriched = <<>>
    /\ at_risk = <<>>

InitSession ==
    /\ pc = "menu"
    /\ n = 0
    /\ i = 0
    /\ idx = 0
    /\ student = <<>>
    /\ new_rows = <<>>
    /\ val = <<>>
    /\ msg = <<"">>
    /\ crashed = FALSE

Init ==
    /\ \E lines \in InitStores : files = [p \in {FILENAME} |-> lines]
    /\ InitSession
    /\ InitGrade
    /\ InitReport

Next ==
    \/ \E k \in 0..MaxBatch : AddStart(k)
    \/ \E raw \in CountInvalidInputs : AddCountRaises(raw)
    \/ \E raw \in InputsFor(idx) : Prompt(raw)
    \/ \E student_id \in DeleteInputs : delete_data(FILENAME, student_id)
    \/ \E col_raw \in ColumnInputs, order_raw \in OrderInputs :
           sort_data(FILENAME, col_raw, order_raw)

Spec == Init /\ [][Next]_vars

(***************************************************************************)
(* Properties of the store.                                                *)
(***************************************************************************)
\* the data lines of the store file
StoreLines(fs) ==
    IF Exists(fs, FILENAME) /\ fs[FILENAME] # <<>> THEN Tail(fs[FILENAME]) ELSE <<>>

\* C1: every record of the store file has a non-empty student_id and no two
\* records of the store file share a student_id.
C1_StoreIdsUnique ==
    \A j \in DOMAIN StoreLines(files), k \in DOMAIN StoreLines(files) :
        /\ StoreLines(files)[k][1] # <<>>
        /\ j # k => StoreLines(files)[j][1] # StoreLines(files)[k][1]

\* the typed identifier is the first cell of a data line of the store file
IdInStore(fs, v) == \E k \in DOMAIN StoreLines(fs) : StoreLines(fs)[k][1] = v

\* C2: at the student_id prompt of add_data, a value that is the student_id
\* of a row of the store file is rejected: nothing is appended to the new
\* record, the same prompt comes again, and the store file is unchanged.
C2_DuplicateIdRejected ==
    [][(pc = "add" /\ idx = 0 /\ IdInStore(files, val'))
          => /\ msg' = <<"Student ID already taken">>
             /\ student' = student
             /\ new_rows' = new_rows
             /\ idx' = 0
             /\ pc' = "add"
             /\ files' = files]_vars

\* C2 witness: an identifier of the store was typed and turned down
C2_Witness ==
    /\ pc = "add"
    /\ idx = 0
    /\ msg[1] = "Student ID already taken"
    /\ IdInStore(files, val)
    /\ student = <<>>

\* the field rules on one line of the store file
ScoreCellOk(cell) ==
    \/ cell = STR_none
    \/ FloatOk(cell) /\ 0 <= FloatOf(cell) /\ FloatOf(cell) <= 100

FieldRulesHold(line) ==
    /\ Len(line) = 12
    /\ line[1] # <<>>
    /\ line[2] # <<>> /\ ~AnyDigit(line[2])
    /\ line[3] # <<>> /\ ~AnyDigit(line[3])
    /\ line[4] # <<>>
    /\ \A k \in 5..12 : ScoreCellOk(line[k])

\* C6: every record add_data appends to the store satisfies the field
\* rules; a blank name or section is taken as "none", a blank or "none"
\* score as the missing sentinel "none".
C6_AddedRecordsValid ==
    [][/\ (pc = "add" /\ pc' = "menu")
            => /\ Len(files'[FILENAME]) = Len(files[FILENAME]) + n
               /\ \A k \in (Len(files[FILENAME]) + 1)..Len(files'[FILENAME]) :
                      FieldRulesHold(files'[FILENAME][k])
       /\ (pc = "add" /\ idx \in 1..3 /\ val' = <<>>)
            => student' = Append(student, PyStr(STR_none))
       /\ (pc = "add" /\ idx \in 4..10 /\ (val' = <<>> \/ Lower(val') = STR_none))
            => student' = Append(student, PyStr(STR_none))]_vars

\* C6 witness: add_data has saved a batch whose last record holds a blank
\* name, a name, a section, a missing score and scores at both limits
C6_Witness ==
    /\ pc = "menu"
    /\ msg[1] = "Data saved"
    /\ n > 0
    /\ Len(new_rows) = n
    /\ LET line == files[FILENAME][Len(files[FILENAME])]
       IN  /\ line = CsvLines(new_rows)[n]
           /\ line[2] = STR_none
           /\ line[3] = <<"L","e","e">>
           /\ line[4] = <<"A"," ","B">>
           /\ line[5] = <<"5","0",".","0">>
           /\ line[6] = STR_none
           /\ line[11] = <<"0",".","0">>
           /\ line[12] = <<"1","0","0",".","0">>

(***************************************************************************)
(* sort_data on store files of several records.                            *)
(***************************************************************************)
\* The store files sorted hold at most this many lines.
MaxSortRows == 4

SortIds == <<"A", "B", "C", "D", "E">>

\* The quiz1 cells of the files sorted: the missing text of add_data (a
\* rewrite leaves the empty text), scores as the writers leave them, and a
\* score clean_ingest rejects.
SortCells == { STR_none, <<"5","0",".","0">>, <<"1","0","0",".","0">>,
               <<"1","0","1",".","0">> }

SortLine(k, cell) ==
    << <<SortIds[k]>>, STR_none, <<"L","e","e">>, STR_none, cell,
       STR_none, STR_none, STR_none, STR_none, STR_none, STR_none, STR_none >>

SortStores ==
    UNION { { <<HEADER>> \o [k \in 1..len |-> SortLine(k, cells[k])] :
                cells \in [1..len -> SortCells] } : len \in 0..MaxSortRows }

InitSort ==
    /\ \E lines \in SortStores : files = [p \in {FILENAME} |-> lines]
    /\ InitSession
    /\ InitGrade
    /\ InitReport

NextSort ==
    \E col_raw \in ColumnInputs, order_raw \in OrderInputs :
        sort_data(FILENAME, col_raw, order_raw)

SpecSort == InitSort /\ [][NextSort]_vars

\* the bijections of 1..len
Bijections(len) ==
    { f \in [1..len -> 1..len] : \A j \in 1..len, k \in 1..len : f[j] = f[k] => j = k }

\* the rows rows in the order f: the k-th is rows[f[k]]
Permuted(rows, f) == [k \in DOMAIN rows |-> rows[f[k]]]

IsMissing(r, col_index) == r[col_index + 1].t = "None"

\* C10: sort_data on a numeric column rewrites the store as a permutation
\* of the valid records read; the records whose value is missing come
\* first in both directions (minus infinity ascending, plus infinity
\* descending), the others follow in the chosen direction, and records
\* with equal keys keep their relative order.
C10_NumericSort ==
    [][(msg'[1] = "Data sorted by" /\ IsNumericIdx(HeaderIndex(msg'[2])))
          => LET valid_rows == clean_ingest(files, FILENAME)
                 c == HeaderIndex(msg'[2])
                 descending == msg'[3] = "descending"
             IN  \E f \in Bijections(Len(valid_rows)) :
                   /\ files'[FILENAME] = <<HEADER>> \o CsvLines(Permuted(valid_rows, f))
                   /\ \A j \in DOMAIN valid_rows, k \in DOMAIN valid_rows :
                        j < k =>
                          LET x == valid_rows[f[j]]
                              y == valid_rows[f[k]]
                          IN  /\ IsMissing(y, c) => IsMissing(x, c)
                              /\ (~IsMissing(x, c) /\ ~IsMissing(y, c))
                                   => IF descending THEN x[c + 1].v >= y[c + 1].v
                                                    ELSE x[c + 1].v <= y[c + 1].v
                              /\ (IsMissing(x, c) = IsMissing(y, c)
                                    /\ (IsMissing(x, c) \/ x[c + 1].v = y[c + 1].v))
                                   => f[j] < f[k]]_vars

\* C10 witness: a descending sort on quiz1 has moved the record with the
\* missing score to the front and kept the two records with equal scores
\* (A before B in the file read) in their order behind the higher score
C10_Witness ==
    /\ msg[1] = "Data sorted by"
    /\ msg[2] = H_quiz1
    /\ msg[3] = "descending"
    /\ Len(files[FILENAME]) = 5
    /\ [k \in 1..4 |-> files[FILENAME][k + 1][1]] = << <<"D">>, <<"C">>, <<"A">>, <<"B">> >>
    /\ files[FILENAME][2][5] = <<>>
    /\ files[FILENAME][3][5] = <<"1","0","0",".","0">>
    /\ files[FILENAME][4][5] = <<"5","0",".","0">>
    /\ files[FILENAME][5][5] = <<"5","0",".","0">>

(***************************************************************************)
(* reports.py: the grade helpers.  A score is an integral float; a         *)
(* composite is held in hundredths (81.00 is 8100).                        *)
(***************************************************************************)
\* _to_float_safe(val), lines 29-41: the float, or None
to_float_safe(x) ==
    IF x.t = "None" THEN None
    ELSE IF x.t = "float" THEN x.v
    ELSE LET t == Strip(x.s)
         IN  IF t = <<>> \/ Lower(t) = STR_none THEN None
             ELSE IF FloatOk(t) THEN FloatOf(t)
             ELSE None

QuizKeys == <<H_quiz1, H_quiz2, H_quiz3, H_quiz4, H_quiz5>>

\* lines 50-54: the present quiz scores, in order
RECURSIVE QuizzesFrom(_, _)
QuizzesFrom(d, k) ==
    IF k > Len(QuizKeys) THEN <<>>
    ELSE LET q == to_float_safe(DictGet(d, QuizKeys[k], PyNone))
         IN  (IF q # None THEN <<q>> ELSE <<>>) \o QuizzesFrom(d, k + 1)

RECURSIVE SumSeq(_)
SumSeq(s) == IF s = <<>> THEN 0 ELSE Head(s) + SumSeq(Tail(s))

\* QuizAvg dividing by the five quiz columns
QuizAvg_OverFive(quizzes) == [num |-> SumSeq(quizzes), den |-> 5]

\* line 55: quiz_avg as the fraction num/den
QuizAvg(quizzes) ==
    IF quizzes # <<>> THEN [num |-> SumSeq(quizzes), den |-> Len(quizzes)]
    ELSE [num |-> 0, den |-> 1]

\* WEIGHTS, lines 13-18, in tenths
W_quiz == 3
W_midterm == 3
W_final == 3
W_attendance == 1

\* round(x, 2) of x = num/den hundredths.  Off a tie it is the nearest
\* hundredth; on a tie (x.xx5 exactly) the binary float lies a little above
\* or below and either neighbour can come out.
Round2(num, den) ==
    LET q == num \div den
        r == num % den
    IN  IF 2 * r < den THEN {q}
        ELSE IF 2 * r > den THEN {q + 1}
        ELSE {q, q + 1}

\* line 62: the test that returns None
AllMissing(quizzes, mid, fin, att) ==
    QuizAvg(quizzes).num = 0 /\ mid = None /\ fin = None /\ att = None

\* _compute_final_from_row_map(row), lines 43-77: the values it can return
compute_final_from_row_map(d) ==
    LET quizzes == QuizzesFrom(d, 1)
        quiz_avg == QuizAvg(quizzes)
        mid == to_float_safe(DictGet(d, H_midterm, PyNone))
        fin == to_float_safe(DictGet(d, H_final, PyNone))
        att == to_float_safe(DictGet(d, H_attendance_percent, PyNone))
    IN  IF AllMissing(quizzes, mid, fin, att) THEN {None}
        ELSE LET mid_val == IF mid # None THEN mid ELSE 0
                 final_val == IF fin # None THEN fin ELSE 0
                 att_val == IF att # None THEN att ELSE 0
             IN  Round2(10 * W_quiz * quiz_avg.num
                          + quiz_avg.den * 10 * (mid_val * W_midterm + final_val * W_final
                                                   + att_val * W_attendance),
                        quiz_avg.den)

STR_NA == <<"N","/","A">>

\* letter_grade with the A limit exclusive
letter_grade_StrictA(score) ==
    IF score = None THEN STR_NA
    ELSE IF score > 9000 THEN <<"A">>
    ELSE IF score >= 8000 THEN <<"B">>
    ELSE IF score >= 7000 THEN <<"C">>
    ELSE IF score >= 6000 THEN <<"D">>
    ELSE <<"F">>

\* _letter_grade(score), lines 79-91
letter_grade(score) ==
    IF score = None THEN STR_NA
    ELSE IF score >= 9000 THEN <<"A">>
    ELSE IF score >= 8000 THEN <<"B">>
    ELSE IF score >= 7000 THEN <<"C">>
    ELSE IF score >= 6000 THEN <<"D">>
    ELSE <<"F">>

\* The row maps handed to _compute_final_from_row_map: the cells of each
\* score column.
GradeCells ==
    << { <<>>, <<"0">>, <<"5","0">>, <<"8","0">>, <<"8","5">> },
       { <<"N","o","n","e">>, <<"0">>, <<"5","0">>, <<"9","0">> },
       { <<" ">>, <<"0">>, <<"5","0">>, <<"7","0">> },
       { <<"a","b","c">>, <<"0">>, <<"5","0">>, <<"6","0">> },
       { <<>>, <<"0">>, <<"5","0",".","0">>, <<"1","0","0">> },
       { <<>>, <<"0">>, <<"6","0">>, <<"8","5">> },
       { <<"n","o","n","e">>, <<"0">>, <<"6","0">>, <<"7","5">> },
       { <<>>, <<"0">>, <<"7","0">>, <<"9","0">> } >>

GradeRow(cells) ==
    DictOfLine(HEADER, << <<"S","1">>, <<"T","e","s","t">>, <<"S","t","u","d","e","n","t">>, <<"A">> >> \o cells)

\* a row map without the score keys, as of a file without those columns
ShortRow == DictOfLine(<<H_student_id, H_last_name>>, << <<"S","1">>, <<"T","e","s","t">> >>)

GradeRows ==
    { GradeRow(<<c1, c2, c3, c4, c5, c6, c7, c8>>) :
          c1 \in GradeCells[1], c2 \in GradeCells[2], c3 \in GradeCells[3],
          c4 \in GradeCells[4], c5 \in GradeCells[5], c6 \in GradeCells[6],
          c7 \in GradeCells[7], c8 \in GradeCells[8] }
      \cup { ShortRow }

\* The scores handed to _letter_grade directly, in hundredths.
LetterScores == { None, 0, 5990, 5999, 6000, 6990, 7000, 7990, 8000, 8990, 8999, 9000, 9500, 10000 }

\* no row map is in play
NoRow == [keys |-> <<>>, vals |-> <<>>]

InitGradeSpec ==
    /\ files = [p \in {FILENAME} |-> <<HEADER>>]
    /\ InitSession
    /\ InitReport
    /\ row \in GradeRows
    /\ final = None
    /\ letter = <<>>

\* final = _compute_final_from_row_map(row); letter = _letter_grade(final)
ComputeFinal ==
    /\ letter = <<>>
    /\ \E f \in compute_final_from_row_map(row) :
          /\ final' = f
          /\ letter' = letter_grade(f)
    /\ UNCHANGED <<row, storeVars, reportVars>>

\* letter = _letter_grade(score)
LetterGrade(score) ==
    /\ row' = NoRow
    /\ final' = score
    /\ letter' = letter_grade(score)
    /\ UNCHANGED <<storeVars, reportVars>>

NextGrade ==
    \/ ComputeFinal
    \/ \E score \in LetterScores : LetterGrade(score)

SpecGrade == InitGradeSpec /\ [][NextGrade]_vars

(***************************************************************************)
(* Properties of the grade helpers.                                        *)
(***************************************************************************)
\* _compute_final_from_row_map(row) has returned into final
Computed == row # NoRow /\ letter # <<>>

ScoreKeys == QuizKeys \o <<H_midterm, H_final, H_attendance_percent>>

\* the field of the row map holds a number
FieldPresent(d, key) ==
    /\ HasKey(d, key)
    /\ DictItem(d, key).t = "str"
    /\ FloatOk(DictItem(d, key).s)

\* the number a present field holds, 0 for a missing one
FieldValue(d, key) == IF FieldPresent(d, key) THEN FloatOf(DictItem(d, key).s) ELSE 0

\* C3: the composite is absent (None, letter "N/A") if and only if none of
\* the eight numeric fields is present; with any field present, even 0, it
\* is a number.
C3_AbsentIffNoField ==
    Computed =>
        /\ final = None <=> \A k \in DOMAIN ScoreKeys : ~FieldPresent(row, ScoreKeys[k])
        /\ final = None <=> letter = STR_NA

\* the present quiz columns of the row map
PresentQuizzes(d) == {k \in DOMAIN QuizKeys : FieldPresent(d, QuizKeys[k])}

\* the weighted sum in hundredths, times the number of present quizzes
\* (times 1 when no quiz is present): 30 * quiz sum + count * (30 * midterm
\* + 30 * final + 10 * attendance)
WeightedTimesCount(d) ==
    LET cnt == IF PresentQuizzes(d) = {} THEN 1 ELSE Cardinality(PresentQuizzes(d))
    IN  30 * (FieldValue(d, H_quiz1) + FieldValue(d, H_quiz2) + FieldValue(d, H_quiz3)
                + FieldValue(d, H_quiz4) + FieldValue(d, H_quiz5))
          + cnt * (30 * FieldValue(d, H_midterm) + 30 * FieldValue(d, H_final)
                     + 10 * FieldValue(d, H_attendance_percent))

QuizCount(d) == IF PresentQuizzes(d) = {} THEN 1 ELSE Cardinality(PresentQuizzes(d))

Abs(x) == IF x < 0 THEN 0 - x ELSE x

ExampleRow ==
    GradeRow(<< <<"8","0">>, <<"9","0">>, <<"7","0">>, <<"6","0">>, <<"1","0","0">>,
                <<"8","5">>, <<"7","5">>, <<"9","0">> >>)

\* C4: a composite that is not absent is quizAvg*0.3 + midterm*0.3 +
\* final*0.3 + attendance*0.1 rounded to 2 decimals (within half a
\* hundredth of it), quizAvg being the mean of the present quizzes only (0
\* with none) and a missing midterm, final or attendance counting 0;
\* quizzes 80, 90, 70, 60, 100, midterm 85, final 75, attendance 90 give 81.00.
C4_WeightedComposite ==
    (Computed /\ final # None) =>
        /\ 2 * Abs(final * QuizCount(row) - WeightedTimesCount(row)) <= QuizCount(row)
        /\ row = ExampleRow => final = 8100

\* C4 witness: the example has been computed
C4_Witness ==
    /\ Computed
    /\ final = 8100
    /\ row = ExampleRow

\* the letter the table gives a composite
C5_Table(score, grade) ==
    \/ score = None /\ grade = STR_NA
    \/ score # None /\ score >= 9000 /\ grade = <<"A">>
    \/ score # None /\ 8000 <= score /\ score < 9000 /\ grade = <<"B">>
    \/ score # None /\ 7000 <= score /\ score < 8000 /\ grade = <<"C">>
    \/ score # None /\ 6000 <= score /\ score < 7000 /\ grade = <<"D">>
    \/ score # None /\ score < 6000 /\ grade = <<"F">>

\* C5: _letter_grade maps an absent composite to "N/A", >= 90 to "A",
\* [80, 90) to "B", [70, 80) to "C", [60, 70) to "D" and < 60 to "F".
C5_LetterGrade == letter # <<>> => C5_Table(final, letter)

\* C5 witness: the limit 90.00 itself has been graded "A"
C5_Witness == row = NoRow /\ final = 9000 /\ letter = <<"A">>

(***************************************************************************)
(* reports.py: the exports.                                                *)
(***************************************************************************)
OUT_DIR == <<"r","e","p","o","r","t","s">>
\* PASSING_GRADE = 75.0, in hundredths
PASSING_GRADE == 7500

\* os.path.join(a, b)
PathJoin(a, b) == a \o <<"/">> \o b

AT_RISK_FILE == PathJoin(OUT_DIR, <<"a","t","_","r","i","s","k","_","s","t","u","d","e","n","t","s",".","c","s","v">>)
SUMMARY_FILE == PathJoin(OUT_DIR, <<"s","u","m","m","a","r","y",".","c","s","v">>)

K_final_grade == <<"f","i","n","a","l","_","g","r","a","d","e">>
K_final_numeric == <<"f","i","n","a","l","_","n","u","m","e","r","i","c">>
K_letter == <<"l","e","t","t","e","r">>
STR_UNSPECIFIED == <<"U","N","S","P","E","C","I","F","I","E","D">>

\* f"{final:.2f}"
Format2(h) ==
    IntChars(h \div 100) \o <<".", DigitChars[((h % 100) \div 10) + 1], DigitChars[(h % 10) + 1]>>

\* _read_csv_as_dicts(filename), lines 96-102
read_csv_as_dicts(fs, filename) ==
    IF ~Exists(fs, filename) THEN <<>> ELSE DictReader(fs[filename])

\* the composites _compute_final_from_row_map can return for rows, row by row
RECURSIVE FinalsOf(_)
FinalsOf(rows) ==
    IF rows = <<>> THEN { <<>> }
    ELSE { <<h>> \o t : h \in compute_final_from_row_map(Head(rows)), t \in FinalsOf(Tail(rows)) }

\* lines 201-206 (and 121-124): the row with its grade fields
EnrichRow(r, fin) ==
    DictSet(DictSet(DictSet(r,
        K_final_grade, PyStr(IF fin # None THEN Format2(fin) ELSE <<>>)),
        K_final_numeric, IF fin # None THEN PyScore(fin) ELSE PyNone),
        K_letter, PyStr(letter_grade(fin)))

Enrich(rows, finals) == [k \in DOMAIN rows |-> EnrichRow(rows[k], finals[k])]

\* lines 218-219: the group name of a row
SectionName(r) ==
    LET got == DictGet(r, H_section, PyNone)
        sec == IF got.t = "None" \/ got.s = <<>> THEN STR_UNSPECIFIED ELSE got.s
    IN  ReplaceSpaces(Strip(sec))

\* GroupAdd replacing the group's list instead of appending to it
GroupAdd_Overwrite(secs, r) ==
    IF \E g \in DOMAIN secs : secs[g].name = SectionName(r)
    THEN [g \in DOMAIN secs |->
             IF secs[g].name = SectionName(r)
             THEN [secs[g] EXCEPT !.items = <<r>>]
             ELSE secs[g]]
    ELSE Append(secs, [name |-> SectionName(r), items |-> <<r>>])

\* line 220: sections.setdefault(sec_clean, []).append(r); the dict is its
\* groups in insertion order
GroupAdd(secs, r) ==
    IF \E g \in DOMAIN secs : secs[g].name = SectionName(r)
    THEN [g \in DOMAIN secs |->
             IF secs[g].name = SectionName(r)
             THEN [secs[g] EXCEPT !.items = Append(secs[g].items, r)]
             ELSE secs[g]]
    ELSE Append(secs, [name |-> SectionName(r), items |-> <<r>>])

\* lines 216-220
RECURSIVE GroupFrom(_, _)
GroupFrom(secs, rows) ==
    IF rows = <<>> THEN secs ELSE GroupFrom(GroupAdd(secs, Head(rows)), Tail(rows))

\* SectionPath naming the store file for every group
SectionPath_Store(out_folder, sec_name) == FILENAME

\* line 224: the file of a group
SectionPath(out_folder, sec_name) ==
    PathJoin(out_folder, <<"s","e","c","t","i","o","n","_">> \o sec_name \o <<".","c","s","v">>)

\* lines 225-231: the columns of a group's file
SectionFieldnames(items) ==
    LET fieldnames == items[1].keys
    IN  IF \E k \in DOMAIN fieldnames : fieldnames[k] = K_final_grade
        THEN SelectSeq(fieldnames, LAMBDA fn : fn \notin {K_final_grade, K_letter})
                 \o <<K_final_grade, K_letter>>
        ELSE fieldnames

\* lines 235-239: the lines of a group's file
SectionLines(items) ==
    LET fieldnames == SectionFieldnames(items)
    IN  <<fieldnames>> \o
        [j \in DOMAIN items |->
            [k \in DOMAIN fieldnames |-> CsvCell(DictGet(items[j], fieldnames[k], PyNone))]]

\* lines 223-242: the file system after the groups from g on are written
RECURSIVE WriteSections(_, _, _, _)
WriteSections(fs, secs, g, out_folder) ==
    IF g > Len(secs) THEN fs
    ELSE WriteSections(WriteFile(fs, SectionPath(out_folder, secs[g].name),
                                 SectionLines(secs[g].items)),
                       secs, g + 1, out_folder)

\* export_per_section(filename) with a file name, lines 187-242
export_per_section(filename) ==
    /\ pc = "menu"
    /\ ~crashed
    /\ \E finals \in FinalsOf(read_csv_as_dicts(files, filename)) :
         LET rows == read_csv_as_dicts(files, filename)
             rich == Enrich(rows, finals)
         IN  IF rich = <<>>
             THEN /\ msg' = <<"No data available to export per-section.">>
                  /\ UNCHANGED <<files, sections, enriched>>
             ELSE /\ enriched' = rich
                  /\ sections' = GroupFrom(<<>>, rich)
                  /\ files' = WriteSections(files, sections', 1, OUT_DIR)
                  /\ msg' = <<"Exported section">>
    /\ UNCHANGED <<pc, n, i, idx, student, new_rows, val, crashed, gradeVars, at_risk>>

SummaryFieldnames == <<H_student_id, H_last_name, H_first_name, H_section, K_final_grade, K_letter>>

\* lines 169-181: the lines of summary.csv
SummaryLines(rich) ==
    <<SummaryFieldnames>> \o
    [j \in DOMAIN rich |->
        [k \in DOMAIN SummaryFieldnames |->
            CsvCell(DictGet(rich[j], SummaryFieldnames[k], PyStr(<<>>)))]]

\* lines 136-143: str.format raises TypeError on a None, which a line cut
\* short before the section leaves in the row
SummaryPrintRaises(rich) ==
    \E j \in DOMAIN rich :
        \E key \in {H_student_id, H_last_name, H_first_name, H_section} :
            DictGet(rich[j], key, PyStr(<<>>)).t = "None"

\* summary_report(filename, export_sections), lines 107-184
summary_report(filename, export_sections) ==
    /\ pc = "menu"
    /\ ~crashed
    /\ \E finals \in FinalsOf(read_csv_as_dicts(files, filename)) :
         LET rows == read_csv_as_dicts(files, filename)
             rich == Enrich(rows, finals)
         IN  IF rows = <<>>
             THEN /\ msg' = <<"File not found or no data:">>
                  /\ UNCHANGED <<files, sections, enriched, crashed>>
             ELSE IF SummaryPrintRaises(rich)
             THEN /\ crashed' = TRUE
                  /\ msg' = <<"Traceback">>
                  /\ UNCHANGED <<files, sections, enriched>>
             ELSE /\ msg' = <<"Saved overall summary to:">>
                  /\ crashed' = crashed
                  /\ IF export_sections
                     THEN /\ enriched' = rich
                          /\ sections' = GroupFrom(<<>>, rich)
                          /\ files' = WriteFile(WriteSections(files, sections', 1, OUT_DIR),
                                                SUMMARY_FILE, SummaryLines(rich))
                     ELSE /\ files' = WriteFile(files, SUMMARY_FILE, SummaryLines(rich))
                          /\ UNCHANGED <<sections, enriched>>
    /\ UNCHANGED <<pc, n, i, idx, student, new_rows, val, gradeVars, at_risk>>

AtRiskFieldnames == <<H_student_id, H_last_name, H_first_name, H_section, K_final_grade>>

\* BelowThreshold counting the threshold itself as at risk
BelowThreshold_Inclusive(fin, threshold) == fin # None /\ fin <= threshold

\* lines 258-260: the student is at risk
BelowThreshold(fin, threshold) == fin # None /\ fin < threshold

\* lines 261-267: the entry of an at-risk student
AtRiskEntry(r, fin) ==
    [keys |-> AtRiskFieldnames,
     vals |-> << DictGet(r, H_student_id, PyStr(<<>>)), DictGet(r, H_last_name, PyStr(<<>>)),
                 DictGet(r, H_first_name, PyStr(<<>>)), DictGet(r, H_section, PyStr(<<>>)),
                 PyStr(Format2(fin)) >>]

\* lines 255-267: the at_risk list of the rows from k on
RECURSIVE AtRiskFrom(_, _, _, _)
AtRiskFrom(rows, finals, k, threshold) ==
    IF k > Len(rows) THEN <<>>
    ELSE (IF BelowThreshold(finals[k], threshold) THEN <<AtRiskEntry(rows[k], finals[k])>> ELSE <<>>)
             \o AtRiskFrom(rows, finals, k + 1, threshold)

\* lines 278-282: the lines of the at-risk file
AtRiskLines(entries) ==
    <<AtRiskFieldnames>> \o [j \in DOMAIN entries |-> [k \in DOMAIN entries[j].vals |-> CsvCell(entries[j].vals[k])]]

\* AtRiskWritten writing the file also when the list is empty
AtRiskWritten_Always(fs, output_file, entries) ==
    WriteFile(fs, output_file, AtRiskLines(entries))

\* lines 269-282: the file system after the list is written, or not
AtRiskWritten(fs, output_file, entries) ==
    IF entries = <<>> THEN fs ELSE WriteFile(fs, output_file, AtRiskLines(entries))

\* export_at_risk(filename, output_file, threshold), lines 245-296
export_at_risk(filename, output_file, threshold) ==
    /\ pc = "menu"
    /\ ~crashed
    /\ \E finals \in FinalsOf(read_csv_as_dicts(files, filename)) :
         LET rows == read_csv_as_dicts(files, filename)
         IN  IF rows = <<>>
             THEN /\ msg' = <<"File not found or no data:">>
                  /\ UNCHANGED <<files, at_risk>>
             ELSE /\ at_risk' = AtRiskFrom(rows, finals, 1, threshold)
                  /\ files' = AtRiskWritten(files, output_file, at_risk')
                  /\ msg' = IF at_risk' = <<>>
                            THEN <<"No students are currently at risk.">>
                            ELSE <<"student(s) found below", threshold>>
    /\ UNCHANGED <<pc, n, i, idx, student, new_rows, val, crashed, gradeVars, sections, enriched>>

(***************************************************************************)
(* The reports over store files of several records.                        *)
(***************************************************************************)
\* The store files reported on hold at most this many lines.
MaxReportRows == 3

ReportIds == <<"s", "t", "u", "v", "w">>

\* The cells after the identifier of the lines reported on: a student at
\* 58.00 in section "A B", one at 90.00 with an empty section, one with no
\* score and a blank section as add_data stores them, one at 75.00 with a
\* section of blanks, and a line cut short after the identifier.
ReportProfiles ==
    { << <<"L","o","w">>, <<"B">>, <<"A"," ","B">>, <<"5","0",".","0">>, <<"5","0",".","0">>,
         <<"5","0",".","0">>, <<"5","0",".","0">>, <<"5","0",".","0">>,
         <<"6","0",".","0">>, <<"6","0",".","0">>, <<"7","0",".","0">> >>,
      << <<"H","i">>, <<"A">>, <<>>, <<"9","0">>, <<"9","0">>, <<"9","0">>, <<"9","0">>,
         <<"9","0">>, <<"9","0">>, <<"9","0">>, <<"9","0">> >>,
      << STR_none, STR_none, STR_none, STR_none, STR_none, STR_none, STR_none, STR_none,
         STR_none, STR_none, STR_none >>,
      << <<"M","i","d">>, <<"C">>, <<" ">>, <<"7","5">>, <<"7","5">>, <<"7","5">>, <<"7","5">>,
         <<"7","5">>, <<"7","5">>, <<"7","5">>, <<"7","5">> >>,
      << >> }

ReportStores ==
    UNION { { <<HEADER>> \o [k \in 1..len |-> << <<ReportIds[k]>> >> \o cells[k]] :
                cells \in [1..len -> ReportProfiles] } : len \in 0..MaxReportRows }

\* The thresholds handed to export_at_risk, in hundredths.
Thresholds == { PASSING_GRADE, 5800 }

InitReportSpec ==
    /\ \E lines \in ReportStores : files = [p \in {FILENAME} |-> lines]
    /\ InitSession
    /\ InitGrade
    /\ InitReport

NextReport ==
    \/ \E threshold \in Thresholds : export_at_risk(FILENAME, AT_RISK_FILE, threshold)
    \/ export_per_section(FILENAME)
    \/ \E export_sections \in BOOLEAN : summary_report(FILENAME, export_sections)

SpecReport == InitReportSpec /\ [][NextReport]_vars

(***************************************************************************)
(* Properties of the exports.                                              *)
(***************************************************************************)
\* the positions from k on of the records whose composite is present and below th
RECURSIVE C7_Kept(_, _, _)
C7_Kept(finals, th, k) ==
    IF k > Len(finals) THEN <<>>
    ELSE (IF finals[k] # None /\ finals[k] < th THEN <<k>> ELSE <<>>) \o C7_Kept(finals, th, k + 1)

\* the cell of a record under a column of the store, empty when the line is short
C7_Cell(line, col) == IF col <= Len(line) THEN line[col] ELSE <<>>

\* C7: when export_at_risk reports students at risk, the file it writes holds,
\* after its heading, exactly the records of the store whose composite is
\* present and strictly below the threshold, in the order of the store, each
\* with its composite at two decimals; no record at or above the threshold and
\* no record without composite is in it.
C7_AtRiskExport ==
    [][ (msg'[1] = "student(s) found below") =>
          LET lines == Tail(files[FILENAME])
          IN  \E finals \in FinalsOf(DictReader(files[FILENAME])) :
                LET kept == C7_Kept(finals, msg'[2], 1)
                IN  files'[AT_RISK_FILE] =
                      <<AtRiskFieldnames>> \o
                      [j \in DOMAIN kept |->
                          << C7_Cell(lines[kept[j]], 1), C7_Cell(lines[kept[j]], 2),
                             C7_Cell(lines[kept[j]], 3), C7_Cell(lines[kept[j]], 4),
                             Format2(finals[kept[j]]) >>] ]_vars

\* two students at 58.00 around one at exactly 75.00: the file written for
\* the threshold 75 holds the two at 58.00 in the order of the store
C7_Witness ==
    /\ msg[1] = "student(s) found below"
    /\ msg[2] = PASSING_GRADE
    /\ Len(files[FILENAME]) = 4
    /\ Len(files[FILENAME][3]) = Len(HEADER)
    /\ files[FILENAME][3][4] = <<" ">>
    /\ files[FILENAME][3][5] = <<"7","5">>
    /\ Exists(files, AT_RISK_FILE)
    /\ files[AT_RISK_FILE] =
         << AtRiskFieldnames,
            << <<"s">>, <<"L","o","w">>, <<"B">>, <<"A"," ","B">>, <<"5","8",".","0","0">> >>,
            << <<"u">>, <<"L","o","w">>, <<"B">>, <<"A"," ","B">>, <<"5","8",".","0","0">> >> >>

\* the places, group and position, where a record sits in the groups
C8_Places(r) ==
    { pl \in (DOMAIN sections) \X (1..Len(enriched)) :
        /\ pl[2] <= Len(sections[pl[1]].items)
        /\ sections[pl[1]].items[pl[2]] = r }

RECURSIVE C8_Total(_)
C8_Total(secs) == IF secs = <<>> THEN 0 ELSE Len(Head(secs).items) + C8_Total(Tail(secs))

\* C8: after export_per_section every input record sits at exactly one place
\* of exactly one group, records of one section value share their group, the
\* sizes of the groups add up to the number of input records, and the file of
\* each group holds one line per record of the group after its heading.
C8_SectionsPartition ==
    (sections # <<>>) =>
        /\ \A k \in DOMAIN enriched : Cardinality(C8_Places(enriched[k])) = 1
        /\ \A k1, k2 \in DOMAIN enriched :
             DictGet(enriched[k1], H_section, PyNone) = DictGet(enriched[k2], H_section, PyNone)
               => \E g \in DOMAIN sections :
                     \E j1, j2 \in DOMAIN sections[g].items :
                        sections[g].items[j1] = enriched[k1] /\ sections[g].items[j2] = enriched[k2]
        /\ \A g1, g2 \in DOMAIN sections : sections[g1].name = sections[g2].name => g1 = g2
        /\ C8_Total(sections) = Len(enriched)
        /\ \A g \in DOMAIN sections :
             /\ Exists(files, SectionPath(OUT_DIR, sections[g].name))
             /\ Len(files[SectionPath(OUT_DIR, sections[g].name)]) = Len(sections[g].items) + 1
             /\ \A j \in DOMAIN sections[g].items :
                  PyStr(files[SectionPath(OUT_DIR, sections[g].name)][j + 1][1])
                      = DictGet(sections[g].items[j], H_student_id, PyNone)

\* three records in two groups, one group of two records
C8_Witness ==
    /\ Len(enriched) = 3
    /\ Len(sections) = 2
    /\ \E g \in DOMAIN sections : Len(sections[g].items) = 2
    /\ msg[1] = "Exported section"

\* the section of a record is unspecified or blank
C9_Blank(sec) == sec.t = "None" \/ Strip(sec.s) = <<>> \/ sec.s = STR_none

\* C9: every record of a group whose section is missing, empty, of blanks
\* only, or the text "none" is in the group named UNSPECIFIED, and every
\* other record is in the group named by its section text with each space
\* replaced by an underscore.
C9_BlankSectionUnspecified ==
    \A g \in DOMAIN sections :
        \A j \in DOMAIN sections[g].items :
            LET sec == DictGet(sections[g].items[j], H_section, PyNone)
            IN  IF C9_Blank(sec)
                THEN sections[g].name = STR_UNSPECIFIED
                ELSE sections[g].name = ReplaceSpaces(sec.s)

(***************************************************************************)
(* delete_data on the store and on a second file of records.               *)
(***************************************************************************)
\* The store files deleted from hold at most this many lines.
MaxDeleteRows == 2

\* A file of records other than the store.
OTHER_FILE == <<"o","l","d",".","c","s","v">>

DeleteFiles == { FILENAME, OTHER_FILE }

\* The lines of the files deleted from: the valid records of A and of B, and
\* a line of Z that the field rules reject (quiz1 above 100).
DeleteLines ==
    { InitLine,
      [InitLine EXCEPT ![1] = <<"B">>, ![5] = <<"7","5",".","0">>],
      [InitLine EXCEPT ![1] = <<"Z">>, ![5] = <<"1","0","1">>] }

DeleteStores ==
    UNION { { <<HEADER>> \o lines : lines \in [1..len -> DeleteLines] } : len \in 0..MaxDeleteRows }

InitDelete ==
    /\ \E store \in DeleteStores, other \in DeleteStores :
          files = [p \in DeleteFiles |-> IF p = FILENAME THEN store ELSE other]
    /\ InitSession
    /\ InitGrade
    /\ InitReport

NextDelete ==
    \E filename \in DeleteFiles, student_id \in DeleteInputs : delete_data(filename, student_id)

SpecDelete == InitDelete /\ [][NextDelete]_vars

\* the identifier is the student_id of a valid record of the file
C11_Matches(fs, filename, student_id) ==
    \E k \in DOMAIN clean_ingest(fs, filename) : clean_ingest(fs, filename)[k][1] = PyStr(student_id)

\* C11: delete_data with a student_id that is the identifier of no valid
\* record of the file it reads reports that no student was found, leaves
\* every file as it was, line for line, and returns to the menu with the
\* process alive.
C11_DeleteNotFound ==
    [][ \A filename \in DeleteFiles, student_id \in DeleteInputs :
          (delete_data(filename, student_id) /\ ~C11_Matches(files, filename, student_id))
            => /\ msg'[1] = "No student found with that ID."
               /\ files' = files
               /\ crashed' = FALSE
               /\ pc' = "menu" ]_vars

\* not found is reported on a store that holds the valid record of A and the
\* rejected line of Z, both still in it
C11_Witness ==
    /\ msg[1] = "No student found with that ID."
    /\ files[FILENAME] = << HEADER, InitLine, [InitLine EXCEPT ![1] = <<"Z">>, ![5] = <<"1","0","1">>] >>
    /\ ~crashed

\* the valid records of the file whose identifier differs from student_id
C15_Remaining(fs, filename, student_id) ==
    SelectSeq(clean_ingest(fs, filename), LAMBDA r : r[1] # PyStr(student_id))

\* C15: delete_data(filename) with the student_id of a valid record of
\* filename rewrites filename with the header and exactly the valid records
\* of other identifiers, in their order, and touches no other file.
C15_DeleteRewritesSameFile ==
    [][ \A filename \in DeleteFiles, student_id \in DeleteInputs :
          (delete_data(filename, student_id) /\ C11_Matches(files, filename, student_id))
            => /\ files'[filename] = <<HEADER>> \o CsvLines(C15_Remaining(files, filename, student_id))
               /\ \A p \in DOMAIN files' : p # filename => p \in DOMAIN files /\ files'[p] = files[p] ]_vars

(***************************************************************************)
(* reports.py: display_section_simple, and the four reporting operations   *)
(* side by side.                                                           *)
(***************************************************************************)
\* The section names typed at "Enter section name".
DisplayInputs == { <<"a"," ","b">>, <<"x">> }

\* display_section_simple(section_name, folder), lines 307-343
display_section_simple(section_name, folder) ==
    /\ pc = "menu"
    /\ ~crashed
    /\ LET sec_clean == ReplaceSpaces(Strip(section_name))
           file_path == SectionPath(folder, sec_clean)
       IN  IF ~Exists(files, file_path)
           THEN /\ msg' = <<"No CSV found for section", section_name>>
                /\ crashed' = crashed
           ELSE IF files[file_path] = <<>>
           THEN /\ msg' = <<"Section CSV exists but is empty.">>
                /\ crashed' = crashed
           ELSE IF \E k \in 2..Len(files[file_path]) : Len(files[file_path][k]) > Len(files[file_path][1])
           THEN \* line 332: col_widths[i] raises IndexError
                /\ msg' = <<"Traceback">>
                /\ crashed' = TRUE
           ELSE /\ msg' = <<"=== SECTION:", Upper(section_name)>>
                /\ crashed' = crashed
    /\ UNCHANGED <<files, pc, n, i, idx, student, new_rows, val, gradeVars, reportVars>>

\* The store files of the four operations hold at most this many lines.
MaxReadOnlyRows == 2

\* The sections displayed are those of the records, as typed in lower case.
ReadOnlyProfiles ==
    { IF Len(cells) >= 3 THEN [cells EXCEPT ![3] = Lower(cells[3])] ELSE cells : cells \in ReportProfiles }

ReadOnlyStores ==
    UNION { { <<HEADER>> \o [k \in 1..len |-> << <<ReportIds[k]>> >> \o cells[k]] :
                cells \in [1..len -> ReadOnlyProfiles] } : len \in 0..MaxReadOnlyRows }

\* The store file is missing, or holds its header and some lines.
InitReadOnly ==
    /\ \/ files = [p \in {} |-> <<>>]
       \/ \E lines \in ReadOnlyStores : files = [p \in {FILENAME} |-> lines]
    /\ InitSession
    /\ InitGrade
    /\ InitReport

NextReadOnly ==
    \/ NextReport
    \/ \E section_name \in DisplayInputs : display_section_simple(section_name, OUT_DIR)

SpecReadOnly == InitReadOnly /\ [][NextReadOnly]_vars

\* C12: no step of summary_report, export_per_section, export_at_risk or
\* display_section_simple, writing to their default locations, changes the
\* store: the student record file is there after the step exactly when it
\* was before, with the same lines in the same order.
C12_ReportsLeaveStore ==
    [][ /\ Exists(files', FILENAME) <=> Exists(files, FILENAME)
        /\ Exists(files, FILENAME) => files'[FILENAME] = files[FILENAME] ]_vars

\* the summary, the at-risk file and a section file are written and the
\* section has been displayed, over a store of two records
C12_Witness ==
    /\ Exists(files, FILENAME)
    /\ Len(files[FILENAME]) = 3
    /\ Exists(files, SUMMARY_FILE)
    /\ Exists(files, AT_RISK_FILE)
    /\ Exists(files, PathJoin(OUT_DIR, <<"s","e","c","t","i","o","n","_","a","_","b",".","c","s","v">>))
    /\ msg = << "=== SECTION:", <<"A"," ","B">> >>

(***************************************************************************)
(* The menu over a store file that is missing, empty or well formed.       *)
(***************************************************************************)
InitFresh ==
    /\ \/ files = [p \in {} |-> <<>>]
       \/ files = [p \in {FILENAME} |-> <<>>]
       \/ \E lines \in InitStores : files = [p \in {FILENAME} |-> lines]
    /\ InitSession
    /\ InitGrade
    /\ InitReport

SpecFresh == InitFresh /\ [][Next]_vars

\* C13: no step terminates the process; while the store file is missing a
\* non-empty student_id typed at the prompt of add_data is accepted, and the
\* save at the end of add_data leaves a new file of the header followed by
\* the new rows.
C13_MissingStoreNotFatal ==
    [][ /\ crashed' = FALSE
        /\ (~Exists(files, FILENAME) /\ pc = "add" /\ idx = 0 /\ val' # <<>>)
              => (idx' = 1 /\ Len(student') = 1)
        /\ (~Exists(files, FILENAME) /\ pc = "add" /\ pc' = "menu")
              => /\ Exists(files', FILENAME)
                 /\ files'[FILENAME] = <<HEADER>> \o CsvLines(new_rows') ]_vars

\* the lines are the header once, first, and records after it
C14_HeaderOnce(lines) ==
    /\ lines # <<>>
    /\ lines[1] = HEADER
    /\ \A k \in 2..Len(lines) : lines[k] # HEADER /\ Len(lines[k]) = Len(HEADER)

\* C14: after every add_data that saved, every delete_data that deleted and
\* every sort_data that sorted, from a store file that was missing, empty or
\* well formed at the start, the first line of the store file is the header,
\* the header is on no other line, and every other line is a record.
C14_HeaderInvariant ==
    [][ (msg'[1] \in {"Data saved", "Deleted Student ID", "Data sorted by"})
          => (Exists(files', FILENAME) /\ C14_HeaderOnce(files'[FILENAME])) ]_vars

\* a record of the lines has a present composite below th
C16_SomeBelow(lines, th) ==
    \E finals \in FinalsOf(DictReader(lines)) :
        \E k \in DOMAIN finals : finals[k] # None /\ finals[k] < th

\* C16: a call of export_at_risk that finds no student at risk changes no
\* file, so the at-risk file of an earlier call stays as it was; the at-risk
\* file is created or changed only by a call that reports students below its
\* threshold, and such a call is made only when a record of the store has a
\* present composite below that threshold.
C16_NoAtRiskKeepsFile ==
    [][ /\ (msg'[1] = "No students are currently at risk.") => files' = files
        /\ (Exists(files', AT_RISK_FILE) /\
              (~Exists(files, AT_RISK_FILE) \/ files'[AT_RISK_FILE] # files[AT_RISK_FILE]))
              => msg'[1] = "student(s) found below"
        /\ (msg'[1] = "student(s) found below")
              => C16_SomeBelow(files[FILENAME], msg'[2]) ]_vars

\* a call that finds nobody below its threshold follows one that wrote the
\* student at 58.00: the file still lists the student
C16_Witness ==
    /\ msg[1] = "No students are currently at risk."
    /\ at_risk = <<>>
    /\ Exists(files, AT_RISK_FILE)
    /\ Len(files[AT_RISK_FILE]) = 2
    /\ files[AT_RISK_FILE][2][5] = <<"5","8",".","0","0">>

=============================================================================
